---- MODULE Spec2Model ----
(***************************************************************************)
(* A model of the rs-tiled map reader: Map::parse_reader, Map::parse_xml,  *)
(* ObjectGroup::new, Object::new and the shape constructors, driven by a   *)
(* stream of XML events, and Map::tileset_by_gid.                          *)
(*                                                                         *)
(* One parser is a record: its call stack (one frame per function of the   *)
(* recursive descent that is waiting for events), the locals of parse_xml  *)
(* and the result.  One step pulls one event from the stream, as           *)
(* parser.next() does, and runs the code up to the next pull.              *)
(*                                                                         *)
(* The macros parse_tag! and get_attrs! (util.rs) and the parsers of        *)
(* tileset, layer, imagelayer and properties are not among the sources     *)
(* modelled here, map.rs and objects.rs; they are modelled from sections   *)
(* 4.1 to 4.3 of the specification.  One point is taken from their callers *)
(* instead: the handlers of ellipse, polyline, polygon, point and text     *)
(* (objects.rs 186-208) return without pulling the child's EndElement, so  *)
(* that event reaches the dispatcher of the enclosing object on every      *)
(* well-formed object with a shape child.  The dispatcher is modelled as   *)
(* passing over it, the only reading under which these handlers ever       *)
(* produce a shape.                                                        *)
(***************************************************************************)
EXTENDS Integers, Sequences, FiniteSets, TLC

VARIABLES
    mode,    \* which family of documents the stream is drawn from
    tok,     \* the XML tokenizer: the open elements and what it has emitted
    p,       \* the parser of the document
    twin,    \* a second parse_reader call, on the document plus one element
    ins,     \* the element inserted into the twin's document
    lookup   \* the last tileset_by_gid call on the finished Map

vars == <<mode, tok, p, twin, ins, lookup>>

---------------------------------------------------------------------------
(* Bounds of the model. *)

\* Elements (StartElement events) per document, by family of documents.
MaxElems == 5
MaxElemsAttrs == 5
MaxElemsGid == 3
MaxElemsSkip == 5
\* Nesting depth of the open elements.
MaxDepth == 4
\* Characters, whitespace and comment events per document.
MaxMisc == 1
\* Depth of the element inserted into the twin's document.
MaxInsDepth == 2
\* Elements of the inserted subtree, its root included.
MaxInsElems == 3
\* Global tile ids asked of tileset_by_gid: 0 .. MaxGid.
MaxGid == 4

---------------------------------------------------------------------------
(* Option<T>: None and Some(v). *)

None == <<>>
Some(v) == <<v>>
IsSome(o) == o # <<>>
UnwrapOr(o, d) == IF o = <<>> THEN d ELSE o[1]

Last(s) == s[Len(s)]
Front(s) == SubSeq(s, 1, Len(s) - 1)

---------------------------------------------------------------------------
(* Attribute values and their converters.  A raw value is a string; the    *)
(* points of a polyline are a sequence of one-character strings, so that   *)
(* splitting is modelled.                                                  *)

NumStrs == {"0", "1", "2", "3"}
NumVal(v) == CASE v = "0" -> 0 [] v = "1" -> 1 [] v = "2" -> 2 [] v = "3" -> 3

\* A slip: a number that does not parse is taken as 0.
ParseNumLenient(v) == IF v \in NumStrs THEN Some(NumVal(v)) ELSE Some(0)

\* |v:String| v.parse().ok() for the numeric types.
ParseNum(v) == IF v \in NumStrs THEN Some(NumVal(v)) ELSE None

\* Orientation::from_str, through |v:String| v.parse().ok()
ParseOrientation(v) ==
    IF v \in {"orthogonal", "isometric", "staggered", "hexagonal"}
    THEN Some(v) ELSE None

\* A slip: every value but "0" sets the flag.
ParseInfiniteNotZero(v) == Some(v # "0")

\* |v:String| Some(v == "1")
ParseInfinite(v) == Some(v = "1")

\* |v:String| v.parse().ok().map(|x:i32| x == 1)
ParseVisible(v) == IF v \in NumStrs THEN Some(NumVal(v) = 1) ELSE None

\* |v:String| v.parse().ok().and_then(|i| Some(Gid(i)))
ParseGid(v) == ParseNum(v)

\* |v| Some(v)
KeepString(v) == Some(v)

\* |v:String| v.parse().ok() for a Colour: "#rrggbb", shortened here.
ParseColour(v) == IF v \in {"#000", "#f00"} THEN Some(v) ELSE None

\* Gid::EMPTY
GidEmpty == 0

\* get_attrs!: the raw value of the attribute called name, if it is there.
Raw(attrs, name) == IF name \in DOMAIN attrs THEN Some(attrs[name]) ELSE None

\* get_attrs!: one binding: None when the attribute is absent or its
\* converter rejects the raw value.
AttrNum(attrs, name) ==
    IF name \in DOMAIN attrs THEN ParseNum(attrs[name]) ELSE None
AttrString(attrs, name) ==
    IF name \in DOMAIN attrs THEN KeepString(attrs[name]) ELSE None
AttrOrientation(attrs, name) ==
    IF name \in DOMAIN attrs THEN ParseOrientation(attrs[name]) ELSE None
AttrInfinite(attrs, name) ==
    IF name \in DOMAIN attrs THEN ParseInfinite(attrs[name]) ELSE None
AttrVisible(attrs, name) ==
    IF name \in DOMAIN attrs THEN ParseVisible(attrs[name]) ELSE None
AttrGid(attrs, name) ==
    IF name \in DOMAIN attrs THEN ParseGid(attrs[name]) ELSE None
AttrColour(attrs, name) ==
    IF name \in DOMAIN attrs THEN ParseColour(attrs[name]) ELSE None

\* get_attrs!: the extraction fails when a required binding is None.
AllRequired(req) == \A i \in DOMAIN req : IsSome(req[i])

---------------------------------------------------------------------------
(* Object::parse_points.  s.split(' ') and p.split(',') give one piece     *)
(* more than there are separators, so the empty string gives one empty     *)
(* piece.                                                                  *)

RECURSIVE SplitAcc(_, _, _, _, _)
SplitAcc(s, c, i, cur, out) ==
    IF i > Len(s) THEN Append(out, cur)
    ELSE IF s[i] = c THEN SplitAcc(s, c, i + 1, <<>>, Append(out, cur))
    ELSE SplitAcc(s, c, i + 1, Append(cur, s[i]), out)

Split(s, c) == SplitAcc(s, c, 1, <<>>, <<>>)

\* v[0].parse().ok() on a piece: the numbers of the model have one digit.
ParsePiece(piece) ==
    IF Len(piece) = 1 /\ piece[1] \in NumStrs THEN Some(NumVal(piece[1]))
    ELSE None

RECURSIVE PointsAcc(_, _, _)
PointsAcc(pairs, i, points) ==
    IF i > Len(pairs) THEN [ok |-> TRUE, points |-> points]
    ELSE LET v == Split(pairs[i], ",") IN
         IF Len(v) # 2 THEN [ok |-> FALSE, points |-> <<>>]
         ELSE LET x == ParsePiece(v[1])
                  y == ParsePiece(v[2])
              IN  IF x = None \/ y = None
                  THEN [ok |-> FALSE, points |-> <<>>]
                  ELSE PointsAcc(pairs, i + 1,
                                 Append(points, <<x[1], y[1]>>))

ParsePoints(s) == PointsAcc(Split(s, " "), 1, <<>>)

---------------------------------------------------------------------------
(* The parser: frames, failure, and the handlers in call order.            *)

ErrorKinds == {"XmlDecodingError", "MalformedAttributes", "PrematureEnd", "Other"}

ShapeNames == {"ellipse", "polyline", "polygon", "point", "text"}

\* The names parse_tag! is given in Map::parse_xml, ObjectGroup::new and
\* Object::new.
MapHandlers == {"tileset", "layer", "imagelayer", "properties", "objectgroup"}
ObjectGroupHandlers == {"object", "properties"}
ObjectHandlers == ShapeNames \cup {"properties"}

\* The handlers of the parsers of tileset, layer, imagelayer and properties
\* are not modelled by name: every child of theirs is consumed as a subtree.
HandlersOf(fn) ==
    CASE fn = "map" -> MapHandlers
      [] fn = "objectgroup" -> ObjectGroupHandlers
      [] fn = "object" -> ObjectHandlers
      [] OTHER -> {}

\* A frame: the function waiting for events, the name of the element it
\* closes on, the balance of the subtree it is skipping (0: none), and the
\* entity it is building.
Frame(fn, close, val) == [fn |-> fn, close |-> close, skip |-> 0, val |-> val]

Top(q) == q.stack[Len(q.stack)]
Running(q) == q.res = "running" /\ q.err = "none"

\* let mut parser = EventReader::new(reader), and the locals parse_xml
\* declares before its parse_tag!.
NewParser ==
    [stack |-> <<Frame("scan", "", 0)>>,
     err |-> "none",
     res |-> "running",
     pulled |-> 0,
     hdr |-> None,
     infinite |-> None,
     layer_index |-> 0,
     tilesets |-> <<>>,
     layers |-> <<>>,
     image_layers |-> <<>>,
     object_groups |-> <<>>,
     properties |-> None,
     map |-> None]

\* return Err(kind), or a failed `?`: the error starts on its way up.
Fail(q, kind) == [q EXCEPT !.err = kind]

\* panic!: the call stack is unwound and parse_reader returns nothing.
Panic(q) == [q EXCEPT !.res = "panic", !.stack = <<>>]

\* A slip: the handler that called the failed function drops the error and
\* the dispatch of the map goes on.
PropagateStepRecover(q) ==
    IF Len(q.stack) = 1
    THEN [q EXCEPT !.stack = <<>>, !.res = "err"]
    ELSE IF q.stack[Len(q.stack) - 1].fn = "map"
    THEN [q EXCEPT !.stack = Front(@), !.err = "none"]
    ELSE [q EXCEPT !.stack = Front(@)]

\* One `?` or `return Err(e)` on the way up: the innermost function returns
\* the error to its caller; parse_reader returns it to the caller.
PropagateStep(q) ==
    IF Len(q.stack) = 1
    THEN [q EXCEPT !.stack = <<>>, !.res = "err"]
    ELSE [q EXCEPT !.stack = Front(@)]

RECURSIVE Unwind(_)
Unwind(q) ==
    IF q.res = "running" /\ q.err # "none" THEN Unwind(PropagateStep(q)) ELSE q

Push(q, frame) == [q EXCEPT !.stack = Append(@, frame)]
Pop(q) == [q EXCEPT !.stack = Front(@)]
SetVal(q, val) == [q EXCEPT !.stack[Len(q.stack)].val = val]

---------------------------------------------------------------------------
(* Map::parse_xml, up to its parse_tag!.                                   *)

MapRequired(attrs) ==
    <<AttrString(attrs, "version"),
      AttrOrientation(attrs, "orientation"),
      AttrNum(attrs, "width"),
      AttrNum(attrs, "height"),
      AttrNum(attrs, "tilewidth"),
      AttrNum(attrs, "tileheight")>>

ParseXml(q, attrs) ==
    LET req == MapRequired(attrs)
        c == AttrColour(attrs, "backgroundcolor")
        infinite == AttrInfinite(attrs, "infinite")
    IN  IF ~AllRequired(req) THEN Fail(q, "MalformedAttributes")
        ELSE Push([q EXCEPT !.hdr = Some([version |-> req[1][1],
                                          orientation |-> req[2][1],
                                          width |-> req[3][1],
                                          height |-> req[4][1],
                                          tile_width |-> req[5][1],
                                          tile_height |-> req[6][1],
                                          background_color |-> c]),
                            !.infinite = infinite],
                  Frame("map", "map", 0))

\* Ok(Map { .. }) at the end of parse_xml, returned by parse_reader.
MapBuild(q) ==
    [version |-> q.hdr[1].version,
     orientation |-> q.hdr[1].orientation,
     width |-> q.hdr[1].width,
     height |-> q.hdr[1].height,
     tile_width |-> q.hdr[1].tile_width,
     tile_height |-> q.hdr[1].tile_height,
     tilesets |-> q.tilesets,
     layers |-> q.layers,
     image_layers |-> q.image_layers,
     object_groups |-> q.object_groups,
     properties |-> q.properties,
     background_color |-> q.hdr[1].background_color,
     infinite |-> UnwrapOr(q.infinite, FALSE)]

MapDone(q) == [q EXCEPT !.stack = <<>>, !.res = "map", !.map = Some(MapBuild(q))]

\* A slip: the end of the document is reported as another kind of error.
ParseReaderStepOther(q, ev) ==
    CASE ev.type = "start" ->
           IF ev.name = "map" THEN ParseXml(q, ev.attrs) ELSE q
      [] ev.type = "enddoc" -> Fail(q, "Other")
      [] OTHER -> q

\* Map::parse_reader: one turn of its loop.
ParseReaderStep(q, ev) ==
    CASE ev.type = "start" ->
           IF ev.name = "map" THEN ParseXml(q, ev.attrs) ELSE q
      [] ev.type = "enddoc" -> Fail(q, "PrematureEnd")
      [] OTHER -> q

---------------------------------------------------------------------------
(* The parsers of tileset, layer, imagelayer and properties.  Each         *)
(* extracts its attributes, then dispatches over its own children until    *)
(* its EndElement.  An attribute list that misses a required attribute, or *)
(* holds one its converter rejects, is marked by the attribute "malformed".*)

LeafNew(q, name, attrs, val) ==
    IF "malformed" \in DOMAIN attrs THEN Fail(q, "MalformedAttributes")
    ELSE Push(q, Frame("leaf", name, val))

\* Tileset::parse_xml: the range of global tile ids the tileset owns.
TilesetParseXml(q, attrs) ==
    LET fg == AttrNum(attrs, "firstgid")
        tc == AttrNum(attrs, "tilecount")
    IN  IF fg = None \/ tc = None THEN Fail(q, "MalformedAttributes")
        ELSE LeafNew(q, "tileset", attrs,
                     [first_gid |-> fg[1], tile_count |-> tc[1]])

\* Layer::new(parser, attrs, w, layer_index, infinite)
LayerNew(q, attrs, w, layer_index, infinite) ==
    LeafNew(q, "layer", attrs,
            [width |-> w, layer_index |-> layer_index, infinite |-> infinite])

\* ImageLayer::new(parser, attrs, layer_index)
ImageLayerNew(q, attrs, layer_index) ==
    LeafNew(q, "imagelayer", attrs, [layer_index |-> layer_index])

\* parse_properties(parser), Properties::parse_xml(parser)
PropertiesParseXml(q) == Push(q, Frame("leaf", "properties", "props"))

\* A child of one of these elements: a child that cannot be parsed fails
\* the parse, any other is consumed with its subtree.
LeafChild(q, ev) ==
    IF "malformed" \in DOMAIN ev.attrs THEN Fail(q, "MalformedAttributes")
    ELSE [q EXCEPT !.stack[Len(q.stack)].skip = 1]

\* Tileset::contains_tile
ContainsTile(t, gid) == t.first_gid <= gid /\ gid < t.first_gid + t.tile_count

---------------------------------------------------------------------------
(* The handlers of Map::parse_xml: the call each makes when its element    *)
(* opens, and what it does with the value when the call returns.           *)

MapTilesetCall(q, attrs) == TilesetParseXml(q, attrs)
MapTilesetPush(q, tileset) == [q EXCEPT !.tilesets = Append(@, tileset)]

MapLayerCall(q, attrs) ==
    LayerNew(q, attrs, q.hdr[1].width, q.layer_index, UnwrapOr(q.infinite, FALSE))
MapLayerPush(q, layer) ==
    [q EXCEPT !.layers = Append(@, layer), !.layer_index = @ + 1]

MapImageLayerCall(q, attrs) == ImageLayerNew(q, attrs, q.layer_index)
MapImageLayerPush(q, layer) ==
    [q EXCEPT !.image_layers = Append(@, layer), !.layer_index = @ + 1]

MapPropertiesCall(q) == PropertiesParseXml(q)
MapPropertiesSet(q, props) == [q EXCEPT !.properties = Some(props)]

---------------------------------------------------------------------------
(* ObjectGroup::new *)

ObjectGroupNew(q, attrs, layer_index) ==
    Push(q, Frame("objectgroup", "objectgroup",
                  [o |-> AttrNum(attrs, "opacity"),
                   v |-> AttrVisible(attrs, "visible"),
                   c |-> AttrColour(attrs, "color"),
                   n |-> AttrString(attrs, "name"),
                   objects |-> <<>>,
                   properties |-> None,
                   layer_index |-> layer_index]))

\* Ok(ObjectGroup { .. })
ObjectGroupBuild(val) ==
    [name |-> UnwrapOr(val.n, ""),
     opacity |-> UnwrapOr(val.o, 1),
     visible |-> UnwrapOr(val.v, TRUE),
     objects |-> val.objects,
     color |-> val.c,
     layer_index |-> val.layer_index,
     properties |-> val.properties]

\* A slip: the object group is given its position among the object groups.
MapObjectGroupCallPerKind(q, attrs) ==
    ObjectGroupNew(q, attrs, Some(Len(q.object_groups)))

MapObjectGroupCall(q, attrs) == ObjectGroupNew(q, attrs, Some(q.layer_index))
MapObjectGroupPush(q, group) ==
    [q EXCEPT !.object_groups = Append(@, group), !.layer_index = @ + 1]

\* The handlers of ObjectGroup::new.
GroupObjectPush(q, object) ==
    SetVal(q, [Top(q).val EXCEPT !.objects = Append(@, object)])
GroupPropertiesSet(q, props) ==
    SetVal(q, [Top(q).val EXCEPT !.properties = Some(props)])

---------------------------------------------------------------------------
(* Object::new, up to its parse_tag!, and the shape constructors.          *)

ObjectNew(q, attrs) ==
    LET id == AttrNum(attrs, "id")
        gid == AttrGid(attrs, "gid")
        n == AttrString(attrs, "name")
        t == AttrString(attrs, "type")
        w == AttrNum(attrs, "width")
        h == AttrNum(attrs, "height")
        v == AttrVisible(attrs, "visible")
        r == AttrNum(attrs, "rotation")
        x == AttrNum(attrs, "x")
        y == AttrNum(attrs, "y")
    IN  IF ~AllRequired(<<x, y>>) THEN Fail(q, "MalformedAttributes")
        ELSE Push(q, Frame("object", "object",
                           [id |-> UnwrapOr(id, 0),
                            gid |-> UnwrapOr(gid, GidEmpty),
                            name |-> UnwrapOr(n, ""),
                            obj_type |-> UnwrapOr(t, ""),
                            width |-> UnwrapOr(w, 0),
                            height |-> UnwrapOr(h, 0),
                            x |-> x[1],
                            y |-> y[1],
                            rotation |-> UnwrapOr(r, 0),
                            visible |-> UnwrapOr(v, TRUE),
                            shape |-> None,
                            properties |-> None]))

\* let shape = shape.unwrap_or(ObjectShape::Rect { .. }); Ok(Object { .. })
ObjectBuild(val) ==
    [val EXCEPT !.shape = UnwrapOr(val.shape,
                                   [kind |-> "Rect",
                                    width |-> val.width,
                                    height |-> val.height])]

SetShape(q, shape) == SetVal(q, [Top(q).val EXCEPT !.shape = Some(shape)])

\* "ellipse" => |_| { shape = Some(ObjectShape::Ellipse { .. }); Ok(()) }
ObjectEllipse(q) ==
    SetShape(q, [kind |-> "Ellipse",
                 width |-> Top(q).val.width, height |-> Top(q).val.height])

\* Object::new_point, and "point" => |_| { shape = Some(..); Ok(()) }
NewPoint(x, y) == [kind |-> "Point", x |-> x, y |-> y]

\* A slip: the point is given the coordinates in the other order.
ObjectPointSwapped(q) == SetShape(q, NewPoint(Top(q).val.y, Top(q).val.x))

ObjectPoint(q) == SetShape(q, NewPoint(Top(q).val.x, Top(q).val.y))

\* Object::new_polyline and Object::new_polygon: Ok(shape) or Err(kind).
NewPolyline(attrs) ==
    LET s == Raw(attrs, "points") IN
    IF ~AllRequired(<<s>>) THEN [ok |-> FALSE, err |-> "MalformedAttributes"]
    ELSE LET r == ParsePoints(s[1]) IN
         IF ~r.ok THEN [ok |-> FALSE, err |-> "MalformedAttributes"]
         ELSE [ok |-> TRUE, shape |-> [kind |-> "Polyline", points |-> r.points]]

NewPolygon(attrs) ==
    LET s == Raw(attrs, "points") IN
    IF ~AllRequired(<<s>>) THEN [ok |-> FALSE, err |-> "MalformedAttributes"]
    ELSE LET r == ParsePoints(s[1]) IN
         IF ~r.ok THEN [ok |-> FALSE, err |-> "MalformedAttributes"]
         ELSE [ok |-> TRUE, shape |-> [kind |-> "Polygon", points |-> r.points]]

ObjectPolyline(q, attrs) ==
    LET r == NewPolyline(attrs) IN
    IF r.ok THEN SetShape(q, r.shape) ELSE Fail(q, r.err)

ObjectPolygon(q, attrs) ==
    LET r == NewPolygon(attrs) IN
    IF r.ok THEN SetShape(q, r.shape) ELSE Fail(q, r.err)

\* Object::new_text, up to its parser.next(): the attributes, their
\* defaults, and the two matches on halign and valign.
HAligns == {"left", "center", "right", "justify"}
VAligns == {"top", "center", "bottom"}

NewText(q, attrs) ==
    LET halign == Raw(attrs, "halign")
        valign == Raw(attrs, "valign")
    IN  IF halign # None /\ halign[1] \notin HAligns THEN Panic(q)
        ELSE IF valign # None /\ valign[1] \notin VAligns THEN Panic(q)
        ELSE Push(q, Frame("text", "text",
                 [kind |-> "Text",
                  font_family |-> UnwrapOr(Raw(attrs, "fontfamily"), "sans-serif"),
                  pixel_size |-> UnwrapOr(AttrNum(attrs, "pixelsize"), 16),
                  wrap |-> (AttrNum(attrs, "wrap") = Some(1)),
                  bold |-> (AttrNum(attrs, "bold") = Some(1)),
                  italic |-> (AttrNum(attrs, "italic") = Some(1)),
                  underline |-> (AttrNum(attrs, "underline") = Some(1)),
                  strikeout |-> (AttrNum(attrs, "strikeout") = Some(1)),
                  kerning |-> (AttrNum(attrs, "kerning") # Some(0)),
                  halign |-> UnwrapOr(halign, "left"),
                  valign |-> UnwrapOr(valign, "top")]))

\* Object::new_text, from its parser.next() on, and the handler of "text"
\* storing the shape it returns.
NewTextContents(q, ev) ==
    IF ev.type = "chars" THEN SetShape(Pop(q), Top(q).val) ELSE Panic(q)

\* "properties" => |_| { properties = Properties::parse_xml(parser)?; .. }
ObjectPropertiesSet(q, props) ==
    SetVal(q, [Top(q).val EXCEPT !.properties = Some(props)])

---------------------------------------------------------------------------
(* parse_tag!: the handlers it is given, by the function that uses it.     *)

\* parse_tag!(parser, "map", { .. }) of Map::parse_xml
MapHandler(q, ev) ==
    CASE ev.name = "tileset" -> MapTilesetCall(q, ev.attrs)
      [] ev.name = "layer" -> MapLayerCall(q, ev.attrs)
      [] ev.name = "imagelayer" -> MapImageLayerCall(q, ev.attrs)
      [] ev.name = "properties" -> MapPropertiesCall(q)
      [] ev.name = "objectgroup" -> MapObjectGroupCall(q, ev.attrs)

\* parse_tag!(parser, "objectgroup", { .. }) of ObjectGroup::new
ObjectGroupHandler(q, ev) ==
    CASE ev.name = "object" -> ObjectNew(q, ev.attrs)
      [] ev.name = "properties" -> PropertiesParseXml(q)

\* parse_tag!(parser, "object", { .. }) of Object::new
ObjectHandler(q, ev) ==
    CASE ev.name = "ellipse" -> ObjectEllipse(q)
      [] ev.name = "polyline" -> ObjectPolyline(q, ev.attrs)
      [] ev.name = "polygon" -> ObjectPolygon(q, ev.attrs)
      [] ev.name = "point" -> ObjectPoint(q)
      [] ev.name = "text" -> NewText(q, ev.attrs)
      [] ev.name = "properties" -> PropertiesParseXml(q)

\* The function whose parse_tag! has ended returns its value, and the
\* handler that called it goes on with that value.
Return(q) ==
    LET f == Top(q)
        r == Pop(q)
        caller == IF Len(q.stack) > 1 THEN q.stack[Len(q.stack) - 1].fn ELSE ""
    IN  CASE f.fn = "map" -> MapDone(q)
          [] f.fn = "objectgroup" -> MapObjectGroupPush(r, ObjectGroupBuild(f.val))
          [] f.fn = "object" -> GroupObjectPush(r, ObjectBuild(f.val))
          [] f.fn = "leaf" /\ f.close = "tileset" -> MapTilesetPush(r, f.val)
          [] f.fn = "leaf" /\ f.close = "layer" -> MapLayerPush(r, f.val)
          [] f.fn = "leaf" /\ f.close = "imagelayer" -> MapImageLayerPush(r, f.val)
          [] f.fn = "leaf" /\ f.close = "properties" /\ caller = "map" ->
               MapPropertiesSet(r, f.val)
          [] f.fn = "leaf" /\ f.close = "properties" /\ caller = "objectgroup" ->
               GroupPropertiesSet(r, f.val)
          [] f.fn = "leaf" /\ f.close = "properties" /\ caller = "object" ->
               ObjectPropertiesSet(r, f.val)

\* A StartElement at the dispatcher's own level: the handler of that name,
\* or the start of the skip of an unknown subtree.
DispatchStart(q, ev) ==
    LET fn == Top(q).fn IN
    CASE fn = "map" /\ ev.name \in MapHandlers -> MapHandler(q, ev)
      [] fn = "objectgroup" /\ ev.name \in ObjectGroupHandlers ->
           ObjectGroupHandler(q, ev)
      [] fn = "object" /\ ev.name \in ObjectHandlers -> ObjectHandler(q, ev)
      [] fn = "leaf" -> LeafChild(q, ev)
      [] OTHER -> [q EXCEPT !.stack[Len(q.stack)].skip = 1]

\* A variant: an EndElement of another name fails the dispatch.
DispatchEndStrict(q, ev) ==
    IF ev.name = Top(q).close THEN Return(q) ELSE Fail(q, "PrematureEnd")

\* An EndElement at the dispatcher's own level: the end of the dispatch when
\* it names the element the dispatcher was opened for.
DispatchEnd(q, ev) == IF ev.name = Top(q).close THEN Return(q) ELSE q

\* An event inside the unknown subtree being skipped: Start and End events
\* are counted until the balance is back at zero.
SkipStep(q, ev) ==
    CASE ev.type = "start" -> [q EXCEPT !.stack[Len(q.stack)].skip = @ + 1]
      [] ev.type = "end" -> [q EXCEPT !.stack[Len(q.stack)].skip = @ - 1]
      [] ev.type = "enddoc" -> Fail(q, "PrematureEnd")
      [] OTHER -> q

\* One turn of the loop of parse_tag!.
ParseTag(q, ev) ==
    IF Top(q).skip > 0 THEN SkipStep(q, ev)
    ELSE CASE ev.type = "start" -> DispatchStart(q, ev)
           [] ev.type = "end" -> DispatchEnd(q, ev)
           [] ev.type = "enddoc" -> Fail(q, "PrematureEnd")
           [] OTHER -> q

\* parser.next().map_err(TiledError::XmlDecodingError)? and the code that
\* runs on the event, up to the next parser.next().
StepP(q, ev) ==
    LET q1 == [q EXCEPT !.pulled = @ + 1] IN
    IF ev.type = "err" THEN Fail(q1, "XmlDecodingError")
    ELSE CASE Top(q).fn = "scan" -> ParseReaderStep(q1, ev)
           [] Top(q).fn = "text" -> NewTextContents(q1, ev)
           [] OTHER -> ParseTag(q1, ev)

\* Map::tileset_by_gid: self.tilesets.iter().find(|t| t.contains_tile(gid)),
\* as the position of the tileset the returned reference points to.
RECURSIVE FindFrom(_, _, _)
FindFrom(tilesets, gid, i) ==
    IF i > Len(tilesets) THEN None
    ELSE IF ContainsTile(tilesets[i], gid) THEN Some(i)
    ELSE FindFrom(tilesets, gid, i + 1)

\* A slip: the search keeps the last tileset that contains the tile.
TilesetByGidLast(map, gid) ==
    LET hits == {i \in 1 .. Len(map.tilesets) : ContainsTile(map.tilesets[i], gid)}
    IN  IF hits = {} THEN None
        ELSE Some(CHOOSE i \in hits : \A j \in hits : j <= i)

TilesetByGid(map, gid) == FindFrom(map.tilesets, gid, 1)

---------------------------------------------------------------------------
(* The XML tokenizer, EventReader: a producer of StartElement, EndElement, *)
(* Characters, other (whitespace, comment), EndDocument events and of      *)
(* decoding errors.  Its elements nest: an EndElement closes the innermost *)
(* open element.  A document may be cut short by EndDocument or an error.  *)

N0 == [name |-> "n"]
Put(attrs, name, v) ==
    [k \in DOMAIN attrs \cup {name} |-> IF k = name THEN v ELSE attrs[k]]
Drop(attrs, name) == [k \in DOMAIN attrs \ {name} |-> attrs[k]]

MapGood ==
    [version |-> "1", orientation |-> "orthogonal", width |-> "2",
     height |-> "2", tilewidth |-> "1", tileheight |-> "1"]
TilesetGood == [name |-> "n", firstgid |-> "1", tilecount |-> "2"]
ObjectGood == [name |-> "n", x |-> "1", y |-> "2", width |-> "3", height |-> "1"]
PointsGood == <<"0", ",", "0", " ", "1", ",", "2">>
PointsNoPair == <<"0", ",", "0", " ", "1">>
PointsNoNumber == <<"0", ",", "a">>
Bare == [unused |-> "1"]
ObjectBare == [x |-> "1", y |-> "2"]
ObjectFull ==
    [x |-> "1", y |-> "2", id |-> "3", gid |-> "2", name |-> "n", type |-> "t",
     width |-> "3", height |-> "1", visible |-> "0", rotation |-> "2"]
ObjectOddOptionals ==
    [x |-> "1", y |-> "2", id |-> "a", gid |-> "a", width |-> "a",
     height |-> "a", visible |-> "a", rotation |-> "a"]
MapRequiredNames ==
    {"version", "orientation", "width", "height", "tilewidth", "tileheight"}

MaxElemsOf(m) ==
    CASE m = "struct" -> MaxElems
      [] m = "attrs" -> MaxElemsAttrs
      [] m = "gid" -> MaxElemsGid
      [] m = "skip" -> MaxElemsSkip

\* The names an element opened under parent may have.
ChildNames(m, parent) ==
    CASE m = "gid" ->
           (CASE parent = "" -> {"map"}
              [] parent = "map" -> {"tileset", "foo"}
              [] OTHER -> {})
      [] m = "attrs" ->
           (CASE parent = "" -> {"map"}
              [] parent = "map" -> {"layer", "objectgroup"}
              [] parent = "objectgroup" -> {"object"}
              [] parent = "object" -> {"polyline", "polygon", "ellipse", "point"}
              [] OTHER -> {})
      [] m = "skip" ->
           (CASE parent = "" -> {"map"}
              [] parent = "map" -> {"layer", "objectgroup", "foo"}
              [] parent = "objectgroup" -> {"object", "foo"}
              [] parent = "object" -> {"ellipse", "text", "foo"}
              [] parent = "layer" -> {"foo"}
              [] parent = "foo" -> {"layer"}
              [] OTHER -> {})
      [] OTHER ->
           (CASE parent = "" -> {"map", "foo"}
              [] parent = "foo" -> {"foo", "map", "layer"}
              [] parent = "map" -> MapHandlers \cup {"foo", "map"}
              [] parent = "objectgroup" -> ObjectGroupHandlers \cup {"foo", "objectgroup"}
              [] parent = "object" -> ObjectHandlers \cup {"foo", "object"}
              [] parent \in ShapeNames -> {"foo"}
              [] OTHER -> {"foo"})

\* The attribute lists an element called name may carry.
AttrChoices(m, name, parent) ==
    CASE m = "struct" ->
           (CASE name = "map" ->
                   {MapGood, Put(MapGood, "width", "3"), Drop(MapGood, "width")}
              [] name = "tileset" -> {TilesetGood, Put(TilesetGood, "malformed", "1")}
              [] name \in {"layer", "imagelayer"} -> {N0, Put(N0, "malformed", "1")}
              [] name = "object" -> {ObjectGood, Drop(ObjectGood, "x")}
              [] name \in {"polyline", "polygon"} ->
                   {Put(N0, "points", PointsGood), N0}
              [] name = "text" -> {N0, Put(N0, "halign", "middle")}
              [] name = "foo" /\ parent \in {"tileset", "layer", "imagelayer", "properties"} ->
                   {N0, Put(N0, "malformed", "1")}
              [] OTHER -> {N0})
      [] m = "skip" ->
           (CASE name = "map" -> {MapGood}
              [] name = "tileset" -> {TilesetGood}
              [] name = "object" -> {ObjectGood}
              [] name \in {"polyline", "polygon"} -> {Put(N0, "points", PointsGood)}
              [] OTHER -> {N0})
      [] m = "gid" ->
           (CASE name = "map" -> {MapGood}
              [] name = "tileset" ->
                   {[name |-> "n", firstgid |-> f, tilecount |-> c] :
                        f \in {"1", "2", "3"}, c \in {"0", "1", "2"}}
              [] OTHER -> {N0})
      [] m = "attrs" ->
           (CASE name = "map" ->
                   {MapGood, Put(MapGood, "version", "x")}
                   \cup {Drop(MapGood, r) : r \in MapRequiredNames}
                   \cup {Put(MapGood, r, "x") : r \in MapRequiredNames \ {"version"}}
                   \cup {Drop(Put(Put(MapGood, "infinite", "1"),
                                  "backgroundcolor", "#f00"), "height")}
                   \cup {Put(MapGood, "infinite", v) : v \in {"1", "0", "true"}}
                   \cup {Put(MapGood, "backgroundcolor", v) : v \in {"#f00", "red"}}
              [] name = "objectgroup" ->
                   {Bare,
                    [opacity |-> "0", visible |-> "0", color |-> "#f00", name |-> "n"],
                    [opacity |-> "a", visible |-> "a", color |-> "red"]}
              [] name = "object" ->
                   {ObjectBare, ObjectFull, ObjectOddOptionals,
                    Drop(ObjectBare, "x"), Drop(ObjectBare, "y"),
                    Put(ObjectBare, "x", "a"), Put(ObjectBare, "y", "a"),
                    Drop(ObjectFull, "y")}
              [] name \in {"polyline", "polygon"} ->
                   {Bare} \cup {Put(Bare, "points", v) :
                                    v \in {PointsGood, PointsNoPair, PointsNoNumber, <<>>}}
              [] OTHER -> {Bare})

TopName(t) == IF t.open = <<>> THEN "" ELSE Last(t.open).name

StartEvents(m, t) ==
    IF t.n < MaxElemsOf(m) /\ Len(t.open) < MaxDepth /\ (t.open # <<>> \/ ~t.root)
    THEN UNION {{[type |-> "start", name |-> n, attrs |-> a] :
                     a \in AttrChoices(m, n, TopName(t))} :
                n \in ChildNames(m, TopName(t))}
    ELSE {}

EndEvents(t) ==
    IF t.open # <<>> THEN {[type |-> "end", name |-> TopName(t)]} ELSE {}

MiscEvents(m, t) ==
    CASE m = "struct" /\ t.misc < MaxMisc
           /\ (TopName(t) \in {"text", "object", "foo"} \/ (t.open = <<>> /\ ~t.root)) ->
           {[type |-> "chars"], [type |-> "other"]}
      [] m = "skip" /\ t.misc < MaxMisc /\ TopName(t) = "text" -> {[type |-> "chars"]}
      [] OTHER -> {}

FaultEvents(m, t) ==
    IF m = "struct" THEN {[type |-> "enddoc"], [type |-> "err"]} ELSE {}

\* The events the tokenizer may emit next.
TokEvents(m, t) ==
    IF ~t.live THEN {}
    ELSE StartEvents(m, t) \cup EndEvents(t) \cup MiscEvents(m, t) \cup FaultEvents(m, t)

\* ended: how the stream ended, if it has; firstMap: the attributes of the
\* first StartElement called map, if one has been emitted.
NewTok ==
    [open |-> <<>>, n |-> 0, misc |-> 0, root |-> FALSE, live |-> TRUE,
     ended |-> "", firstMap |-> None]

\* The attribute list an open element is remembered with: its own in the
\* documents of attribute extraction, none elsewhere.
Kept(attrs) == IF mode = "attrs" THEN attrs ELSE Bare

\* The tokenizer after it has emitted ev.  Each open element keeps its
\* attributes, counts its shape-defining children and keeps the name of
\* the last of them.
TokAfter(t, ev) ==
    CASE ev.type = "start" ->
           LET counted ==
                 IF t.open # <<>> /\ ev.name \in ShapeNames
                 THEN [t.open EXCEPT ![Len(t.open)].sh = @ + 1,
                                     ![Len(t.open)].kid = ev.name]
                 ELSE t.open
           IN  [t EXCEPT !.open = Append(counted, [name |-> ev.name, sh |-> 0,
                                                   kid |-> "",
                                                   attrs |-> Kept(ev.attrs)]),
                         !.n = @ + 1, !.root = TRUE,
                         !.firstMap = IF ev.name = "map" /\ @ = None
                                      THEN Some(ev.attrs) ELSE @]
      [] ev.type = "end" -> [t EXCEPT !.open = Front(@)]
      [] ev.type \in {"chars", "other"} -> [t EXCEPT !.misc = @ + 1]
      [] OTHER -> [t EXCEPT !.live = FALSE, !.ended = ev.type]

---------------------------------------------------------------------------
(* The state machine.  Every action but Propagate and Lookup is one        *)
(* parser.next() and the code that runs on its event.                      *)

NoIns == [open |-> <<>>, n |-> 0, used |-> FALSE]
NoLookup == [gid |-> 0, found |-> None, called |-> FALSE]

InitIn(m) ==
    /\ mode = m
    /\ tok = NewTok
    /\ p = NewParser
    /\ twin = NewParser
    /\ ins = NoIns
    /\ lookup = NoLookup

Init == InitIn("struct")

Events == TokEvents(mode, tok)

\* The twin reads the same events as the parser.
TwinAfter(ev) ==
    IF mode = "skip" /\ Running(twin) THEN Unwind(StepP(twin, ev)) ELSE twin

Feed(ev) ==
    /\ ins.open = <<>>
    /\ tok' = TokAfter(tok, ev)
    /\ p' = StepP(p, ev)
    /\ twin' = TwinAfter(ev)
    /\ UNCHANGED <<mode, ins, lookup>>

Level(q, fn) == Running(q) /\ Top(q).fn = fn /\ Top(q).skip = 0
Skipping(q) == Running(q) /\ Top(q).skip > 0
IsStart(ev, name) == ev.type = "start" /\ ev.name = name

\* Map::parse_reader: an event before the map element.
ScanPass ==
    \E ev \in Events :
        /\ Level(p, "scan") /\ ev.type \notin {"enddoc", "err"}
        /\ ~IsStart(ev, "map")
        /\ Feed(ev)

\* Map::parse_reader: the map element, and Map::parse_xml up to its parse_tag!.
ScanFound == \E ev \in Events : Level(p, "scan") /\ IsStart(ev, "map") /\ Feed(ev)

\* Map::parse_reader: the document ends before a map element.
ScanEndDocument == \E ev \in Events : Level(p, "scan") /\ ev.type = "enddoc" /\ Feed(ev)

\* Any parser.next(): the stream reports a decoding error.
StreamError == \E ev \in Events : Running(p) /\ ev.type = "err" /\ Feed(ev)

HandleTileset == \E ev \in Events : Level(p, "map") /\ IsStart(ev, "tileset") /\ Feed(ev)
HandleLayer == \E ev \in Events : Level(p, "map") /\ IsStart(ev, "layer") /\ Feed(ev)
HandleImageLayer == \E ev \in Events : Level(p, "map") /\ IsStart(ev, "imagelayer") /\ Feed(ev)
HandleMapProperties == \E ev \in Events : Level(p, "map") /\ IsStart(ev, "properties") /\ Feed(ev)
HandleObjectGroup == \E ev \in Events : Level(p, "map") /\ IsStart(ev, "objectgroup") /\ Feed(ev)

HandleObject == \E ev \in Events : Level(p, "objectgroup") /\ IsStart(ev, "object") /\ Feed(ev)
HandleGroupProperties ==
    \E ev \in Events : Level(p, "objectgroup") /\ IsStart(ev, "properties") /\ Feed(ev)

HandleEllipse == \E ev \in Events : Level(p, "object") /\ IsStart(ev, "ellipse") /\ Feed(ev)
HandlePolyline == \E ev \in Events : Level(p, "object") /\ IsStart(ev, "polyline") /\ Feed(ev)
HandlePolygon == \E ev \in Events : Level(p, "object") /\ IsStart(ev, "polygon") /\ Feed(ev)
HandlePoint == \E ev \in Events : Level(p, "object") /\ IsStart(ev, "point") /\ Feed(ev)
HandleText == \E ev \in Events : Level(p, "object") /\ IsStart(ev, "text") /\ Feed(ev)
HandleObjectProperties ==
    \E ev \in Events : Level(p, "object") /\ IsStart(ev, "properties") /\ Feed(ev)

\* Object::new_text: the event after the text element's StartElement.
TextContents == \E ev \in Events : Level(p, "text") /\ ev.type # "err" /\ Feed(ev)

\* A child of a tileset, layer, imagelayer or properties element.
LeafChildStart == \E ev \in Events : Level(p, "leaf") /\ ev.type = "start" /\ Feed(ev)

\* parse_tag!: a StartElement no handler is registered for.
UnknownStart ==
    \E ev \in Events :
        /\ Running(p) /\ Top(p).fn \in {"map", "objectgroup", "object"}
        /\ Top(p).skip = 0
        /\ ev.type = "start" /\ ev.name \notin HandlersOf(Top(p).fn)
        /\ Feed(ev)

\* parse_tag!: an event inside the subtree being skipped.
SkipEvent == \E ev \in Events : Skipping(p) /\ ev.type \notin {"enddoc", "err"} /\ Feed(ev)

\* parse_tag!: the EndElement of the element the dispatch was opened for.
MapEnd == \E ev \in Events : Level(p, "map") /\ ev.type = "end" /\ ev.name = "map" /\ Feed(ev)
ObjectGroupEnd ==
    \E ev \in Events :
        Level(p, "objectgroup") /\ ev.type = "end" /\ ev.name = "objectgroup" /\ Feed(ev)
ObjectEnd ==
    \E ev \in Events : Level(p, "object") /\ ev.type = "end" /\ ev.name = "object" /\ Feed(ev)
LeafEnd ==
    \E ev \in Events :
        Level(p, "leaf") /\ ev.type = "end" /\ ev.name = Top(p).close /\ Feed(ev)

\* parse_tag!: an EndElement of another name at the dispatcher's own level.
OtherEnd ==
    \E ev \in Events :
        /\ Running(p) /\ Top(p).fn \in {"map", "objectgroup", "object", "leaf"}
        /\ Top(p).skip = 0
        /\ ev.type = "end" /\ ev.name # Top(p).close
        /\ Feed(ev)

\* parse_tag!: the document ends inside the element.
DispatchEndDocument ==
    \E ev \in Events :
        /\ Running(p) /\ Top(p).fn \in {"map", "objectgroup", "object", "leaf"}
        /\ ev.type = "enddoc"
        /\ Feed(ev)

\* parse_tag!: Characters, whitespace, a comment at the dispatcher's level.
DispatchPass ==
    \E ev \in Events :
        /\ Running(p) /\ Top(p).fn \in {"map", "objectgroup", "object", "leaf"}
        /\ Top(p).skip = 0
        /\ ev.type \in {"chars", "other"}
        /\ Feed(ev)

\* An error on its way up: one function returns it to its caller.
Propagate ==
    /\ p.res = "running" /\ p.err # "none"
    /\ p' = PropagateStep(p)
    /\ UNCHANGED <<mode, tok, twin, ins, lookup>>

\* map.tileset_by_gid(Gid(gid)) on the Map parse_reader returned.
Lookup ==
    /\ p.res = "map"
    /\ \E gid \in 0 .. MaxGid :
           lookup' = [gid |-> gid, found |-> TilesetByGid(p.map[1], gid), called |-> TRUE]
    /\ UNCHANGED <<mode, tok, p, twin, ins>>

\* The elements some handler is registered for, and the map element.
Recognized == {"map"} \cup MapHandlers \cup ObjectGroupHandlers \cup ObjectHandlers

\* The names an element inserted under parent may have: names no handler
\* of parent is registered for.
InsertNames(parent) ==
    CASE parent = "map" -> {"foo", "map"}
      [] parent = "objectgroup" -> {"foo", "objectgroup"}
      [] parent = "object" -> {"foo", "object"}
      [] parent \in ShapeNames -> {"foo"}
      [] OTHER -> {"foo"}

\* The names of the descendants of an inserted element.
InsertedDescendants == {"foo", "layer"} \cup {TopName(tok)}

\* The twin reads an event of the inserted element.
TwinReads(ev) == IF Running(twin) THEN Unwind(StepP(twin, ev)) ELSE twin

\* The twin's document has one element more than the parser's: it opens
\* here, between the children of a recognized element.
InsertStart ==
    /\ mode = "skip" /\ ~ins.used
    /\ Running(p) /\ ~Skipping(p) /\ Running(twin)
    /\ tok.open # <<>> /\ TopName(tok) \in Recognized
    /\ \E n \in InsertNames(TopName(tok)) :
           /\ ins' = [open |-> <<n>>, n |-> 1, used |-> TRUE]
           /\ twin' = TwinReads([type |-> "start", name |-> n, attrs |-> N0])
    /\ UNCHANGED <<mode, tok, p, lookup>>

\* A descendant of the inserted element opens.
InsertNested ==
    /\ ins.open # <<>> /\ Len(ins.open) < MaxInsDepth /\ ins.n < MaxInsElems
    /\ \E n \in InsertedDescendants :
           /\ ins' = [ins EXCEPT !.open = Append(@, n), !.n = @ + 1]
           /\ twin' = TwinReads([type |-> "start", name |-> n, attrs |-> N0])
    /\ UNCHANGED <<mode, tok, p, lookup>>

\* The innermost open element of the insertion closes.
InsertEnd ==
    /\ ins.open # <<>>
    /\ ins' = [ins EXCEPT !.open = Front(@)]
    /\ twin' = TwinReads([type |-> "end", name |-> Last(ins.open)])
    /\ UNCHANGED <<mode, tok, p, lookup>>

Next ==
    \/ ScanPass \/ ScanFound \/ ScanEndDocument \/ StreamError
    \/ HandleTileset \/ HandleLayer \/ HandleImageLayer \/ HandleMapProperties
    \/ HandleObjectGroup \/ HandleObject \/ HandleGroupProperties
    \/ HandleEllipse \/ HandlePolyline \/ HandlePolygon \/ HandlePoint
    \/ HandleText \/ HandleObjectProperties \/ TextContents
    \/ LeafChildStart \/ UnknownStart \/ SkipEvent
    \/ MapEnd \/ ObjectGroupEnd \/ ObjectEnd \/ LeafEnd \/ OtherEnd
    \/ DispatchEndDocument \/ DispatchPass
    \/ Propagate

Spec == Init /\ [][Next]_vars

\* The documents of tileset_by_gid: a map of tilesets of any ranges.
InitGid == InitIn("gid")

NextGid ==
    \/ ScanFound \/ HandleTileset \/ UnknownStart \/ SkipEvent
    \/ LeafEnd \/ MapEnd \/ Lookup

SpecGid == InitGid /\ [][NextGid]_vars

\* The documents of attribute extraction: a map of layers and of object
\* groups of objects with shapes, every attribute list present or absent,
\* accepted or rejected by its converter.
InitAttrs == InitIn("attrs")

NextAttrs ==
    \/ ScanFound \/ HandleLayer \/ HandleObjectGroup \/ HandleObject
    \/ HandleEllipse \/ HandlePolyline \/ HandlePolygon \/ HandlePoint
    \/ MapEnd \/ ObjectGroupEnd \/ ObjectEnd \/ LeafEnd \/ OtherEnd
    \/ Propagate

SpecAttrs == InitAttrs /\ [][NextAttrs]_vars

\* The documents of skipping: well-formed documents every attribute of
\* which is accepted, read by the parser, and read by the twin with one
\* element inserted.
InitSkip == InitIn("skip")

NextSkip ==
    \/ ScanFound \/ HandleLayer \/ HandleObjectGroup \/ HandleObject
    \/ HandleEllipse \/ HandleText \/ TextContents
    \/ LeafChildStart \/ UnknownStart \/ SkipEvent
    \/ MapEnd \/ ObjectGroupEnd \/ ObjectEnd \/ LeafEnd \/ OtherEnd
    \/ InsertStart \/ InsertNested \/ InsertEnd

SpecSkip == InitSkip /\ [][NextSkip]_vars

---------------------------------------------------------------------------
(* The claims. *)

Dispatchers == {"map", "objectgroup", "object", "leaf"}

\* The step pulled an event from the stream.
Pulled == p'.pulled = p.pulled + 1
\* The step pulled the EndElement of the innermost open element.
PulledEnd == Pulled /\ tok.open # <<>> /\ tok'.open = Front(tok.open)
PulledEndDocument == Pulled /\ tok.live /\ tok'.ended = "enddoc"
\* The parser is in the loop of a parse_tag!, at its own level.
AtOwnLevel == Running(p) /\ Top(p).fn \in Dispatchers /\ Top(p).skip = 0

LayerIndices(q) ==
    {q.layers[i].layer_index : i \in DOMAIN q.layers}
        \cup {q.image_layers[i].layer_index : i \in DOMAIN q.image_layers}
        \cup {UnwrapOr(q.object_groups[i].layer_index, -1) : i \in DOMAIN q.object_groups}

LayerCount(q) == Len(q.layers) + Len(q.image_layers) + Len(q.object_groups)

\* C1: at every point of a parse, the layers, image layers and object
\* groups parsed so far hold, between them, exactly the indices 0 .. n-1,
\* n their number, each list in ascending order, and the counter stands at
\* n: the k-th parsed child of the three kinds got index k, and a tileset,
\* a properties element or an unknown child took none.
C1_SharedLayerIndex ==
    /\ p.layer_index = LayerCount(p)
    /\ LayerIndices(p) = 0 .. (LayerCount(p) - 1)
    /\ \A i \in DOMAIN p.layers : \A j \in DOMAIN p.layers :
           i < j => p.layers[i].layer_index < p.layers[j].layer_index
    /\ \A i \in DOMAIN p.image_layers : \A j \in DOMAIN p.image_layers :
           i < j => p.image_layers[i].layer_index < p.image_layers[j].layer_index
    /\ \A i \in DOMAIN p.object_groups : \A j \in DOMAIN p.object_groups :
           i < j => p.object_groups[i].layer_index[1] < p.object_groups[j].layer_index[1]

\* A map returned with a tileset, a layer and then an object group of index 1.
C1_Witness ==
    /\ p.res = "map"
    /\ Len(p.tilesets) = 1 /\ Len(p.layers) = 1 /\ Len(p.object_groups) = 1
    /\ p.object_groups[1].layer_index = Some(1)

\* C3: while parse_reader scans for the map element nothing is built; when
\* the document ends and no map element has been opened, the parse fails
\* with PrematureEnd and returns no Map; and a Map is built from the
\* attributes of the first map element of the stream.
C3_ScanForMap ==
    /\ (Running(p) /\ Top(p).fn = "scan")
           => [p EXCEPT !.pulled = 0] = NewParser
    /\ (tok.ended = "enddoc" /\ tok.firstMap = None)
           => p.err = "PrematureEnd" /\ p.map = None /\ p.res \in {"running", "err"}
    /\ p.res = "map"
           => /\ tok.firstMap # None
              /\ p.map[1].width = NumVal(tok.firstMap[1].width)
              /\ p.map[1].version = tok.firstMap[1].version

\* parse_reader has returned PrematureEnd on a document with elements and
\* no map element.
C3_Witness ==
    /\ p.res = "err" /\ p.err = "PrematureEnd"
    /\ tok.firstMap = None /\ tok.n >= 2 /\ tok.open = <<>>

\* C5: parse_reader ends by returning a Map or one error of the four
\* kinds; it never aborts in another way.
C5_NeverAborts ==
    /\ p.res # "panic"
    /\ p.res = "err" => p.err \in ErrorKinds

\* C6: once an error has been reported, no event is pulled, nothing is
\* added to what was built, the error stays the same one on its way up,
\* and parse_reader returns it and no Map.
C6_FailFast ==
    /\ [](p.err # "none" => p.map = None /\ p.res \in {"running", "err"})
    /\ [](p.res = "err" => p.err \in ErrorKinds)
    /\ [][p.err # "none" =>
            /\ p'.err = p.err
            /\ p'.pulled = p.pulled /\ tok' = tok
            /\ p'.tilesets = p.tilesets /\ p'.layers = p.layers
            /\ p'.image_layers = p.image_layers
            /\ p'.object_groups = p.object_groups
            /\ p'.properties = p.properties
            /\ (p.res = "running"
                   => \/ p'.stack = Front(p.stack) /\ p'.res = "running"
                      \/ p'.stack = <<>> /\ p'.res = "err" /\ Len(p.stack) = 1)
            /\ (p.res = "err" => p' = p)]_vars

\* An error of a shape constructor, four calls deep, has been returned by
\* parse_reader while the stream had more to give and a tileset was parsed.
C6_Witness ==
    /\ p.res = "err" /\ p.err = "MalformedAttributes"
    /\ tok.live /\ Len(tok.open) = 4
    /\ p.tilesets # <<>>

\* The dispatch the parser was in has returned to its caller with success.
DispatchReturned ==
    /\ p'.err = "none" /\ p'.res # "panic"
    /\ p'.res = "map" \/ Len(p'.stack) < Len(p.stack)

OwnEnd == PulledEnd /\ Last(tok.open).name = Top(p).close
OtherEndPulled == PulledEnd /\ Last(tok.open).name # Top(p).close

\* A dispatch returns success exactly when it pulls, at its own level, the
\* EndElement of the element it was opened for.
C9_ReturnsOnOwnEnd == (AtOwnLevel /\ Pulled) => (DispatchReturned <=> OwnEnd)

\* A dispatch that pulls EndDocument fails with PrematureEnd.
C9_EndDocumentFails ==
    (Running(p) /\ Top(p).fn \in Dispatchers /\ PulledEndDocument)
        => (p'.err = "PrematureEnd" /\ p'.stack = p.stack)

GroupObjects(q) == q.stack[Len(q.stack) - 1].val.objects

Owners(tilesets, gid) ==
    {i \in 1 .. Len(tilesets) :
         /\ tilesets[i].first_gid <= gid
         /\ gid < tilesets[i].first_gid + tilesets[i].tile_count}

C2_Answer ==
    lookup.called =>
        LET owners == Owners(p.map[1].tilesets, lookup.gid)
        IN  IF owners = {} THEN lookup.found = None
            ELSE /\ IsSome(lookup.found)
                 /\ lookup.found[1] \in owners
                 /\ \A i \in owners : lookup.found[1] <= i

\* C2: tileset_by_gid(gid) returns the tileset of the smallest position in
\* the stored order whose range contains gid, whether or not ranges overlap
\* or are in ascending order, returns none exactly when no stored range
\* contains gid, and leaves the Map, its tileset list included, as it was.
C2_FirstOwner ==
    /\ []C2_Answer
    /\ [][lookup' # lookup => p' = p]_vars

\* Two stored tilesets own the gid, the later one starts lower, and the
\* lookup answered with the first.
C2_Witness ==
    /\ lookup.called
    /\ Len(p.map[1].tilesets) = 2
    /\ Owners(p.map[1].tilesets, lookup.gid) = {1, 2}
    /\ p.map[1].tilesets[2].first_gid < p.map[1].tilesets[1].first_gid
    /\ lookup.found = Some(1)


\* The step pulled a StartElement; the element it opened and its attributes.
PulledStart == Pulled /\ Len(tok'.open) = Len(tok.open) + 1
Opened == Last(tok'.open)
\* The step pulled the EndElement of this element.
Closed == Last(tok.open)

Has(attrs, name) == name \in DOMAIN attrs
IsNumber(attrs, name) == Has(attrs, name) /\ attrs[name] \in NumStrs
NumberOr(attrs, name, default) ==
    IF IsNumber(attrs, name) THEN NumVal(attrs[name]) ELSE default

\* The required attributes of the element are all present and accepted.
RequiredGood(name, attrs) ==
    CASE name = "map" ->
           /\ Has(attrs, "version")
           /\ Has(attrs, "orientation")
           /\ attrs.orientation \in {"orthogonal", "isometric", "staggered", "hexagonal"}
           /\ \A n \in {"width", "height", "tilewidth", "tileheight"} : IsNumber(attrs, n)
      [] name = "object" -> IsNumber(attrs, "x") /\ IsNumber(attrs, "y")
      [] name \in {"polyline", "polygon"} -> Has(attrs, "points")
      [] OTHER -> TRUE

\* The step ran the extraction of the element it opened.
Extracts ==
    /\ PulledStart
    /\ \/ Level(p, "scan") /\ Opened.name = "map"
       \/ Level(p, "map") /\ Opened.name = "objectgroup"
       \/ Level(p, "objectgroup") /\ Opened.name = "object"
       \/ Level(p, "object") /\ Opened.name \in {"polyline", "polygon"}

\* What the parse has collected, whatever the frames hold.
Collected(q) ==
    <<q.hdr, q.tilesets, q.layers, q.image_layers, q.object_groups, q.properties>>

\* C7: an element with a required attribute absent or rejected by its
\* converter (map: version, orientation, width, height, tilewidth,
\* tileheight; object: x, y; polyline, polygon: points) fails with
\* MalformedAttributes before anything of the element is dispatched or
\* stored, whatever its other attributes are; with every required attribute
\* present and accepted, the extraction does not fail: the parse goes on,
\* but for a polyline or polygon whose points parse_points rejects.
C7_RequiredAllOrNothing ==
    [][Extracts =>
         IF ~RequiredGood(Opened.name, Opened.attrs)
         THEN /\ p'.err = "MalformedAttributes"
              /\ p'.stack = p.stack
              /\ Collected(p') = Collected(p)
         ELSE IF Opened.name \in {"polyline", "polygon"}
         THEN p'.err = "none" <=> ParsePoints(Opened.attrs.points).ok
         ELSE p'.err = "none" /\ Len(p'.stack) = Len(p.stack) + 1]_vars

\* An object with every optional attribute set and y missing has failed the
\* parse with MalformedAttributes.
C7_Witness ==
    /\ p.res = "err" /\ p.err = "MalformedAttributes"
    /\ tok.open # <<>>
    /\ Last(tok.open).name = "object"
    /\ Last(tok.open).attrs = Drop(ObjectFull, "y")

\* The value of visible: v.parse().ok().map(|x| x == 1), or true.
VisibleOr(attrs) ==
    IF IsNumber(attrs, "visible") THEN attrs.visible = "1" ELSE TRUE
ColourOr(attrs, name) ==
    IF Has(attrs, name) /\ attrs[name] \in {"#000", "#f00"}
    THEN Some(attrs[name]) ELSE None
InfiniteOf(attrs) == Has(attrs, "infinite") /\ attrs.infinite = "1"

C8_MapReturned ==
    (Level(p, "map") /\ PulledEnd /\ Closed.name = "map") =>
        /\ p'.res = "map"
        /\ p'.map[1].infinite = InfiniteOf(Closed.attrs)
        /\ p'.map[1].background_color = ColourOr(Closed.attrs, "backgroundcolor")
        /\ \A i \in 1 .. Len(p'.map[1].layers) :
               p'.map[1].layers[i].infinite = InfiniteOf(Closed.attrs)

C8_GroupReturned ==
    (Level(p, "objectgroup") /\ PulledEnd /\ Closed.name = "objectgroup") =>
        /\ p'.err = "none"
        /\ LET g == Last(p'.object_groups) IN
           /\ g.opacity = NumberOr(Closed.attrs, "opacity", 1)
           /\ g.visible = VisibleOr(Closed.attrs)
           /\ g.color = ColourOr(Closed.attrs, "color")

C8_ObjectReturned ==
    (Level(p, "object") /\ PulledEnd /\ Closed.name = "object") =>
        /\ p'.err = "none"
        /\ LET o == Last(Top(p').val.objects) IN
           /\ o.id = NumberOr(Closed.attrs, "id", 0)
           /\ o.gid = NumberOr(Closed.attrs, "gid", GidEmpty)
           /\ o.width = NumberOr(Closed.attrs, "width", 0)
           /\ o.height = NumberOr(Closed.attrs, "height", 0)
           /\ o.rotation = NumberOr(Closed.attrs, "rotation", 0)
           /\ o.visible = VisibleOr(Closed.attrs)

\* C8: an optional attribute never fails its element: absent or rejected
\* by its converter, the field has its default, otherwise the converted
\* value.  Map.infinite is true exactly when infinite="1", and every tile
\* layer of the map was parsed with that value; an Object defaults to id 0,
\* gid EMPTY, width and height 0, rotation 0, visible true; an ObjectGroup
\* to opacity 1.0 and visible true.
C8_OptionalDefaults ==
    /\ [][(Extracts /\ RequiredGood(Opened.name, Opened.attrs)
             /\ Opened.name \notin {"polyline", "polygon"}) => p'.err = "none"]_vars
    /\ [][C8_MapReturned]_vars
    /\ [][C8_GroupReturned]_vars
    /\ [][C8_ObjectReturned]_vars

\* A Map was returned for infinite="true": its flag is false, its layer was
\* parsed with false, and an object whose optional attributes were all
\* rejected has the defaults.
C8_Witness ==
    /\ p.res = "map"
    /\ tok.firstMap = Some(Put(MapGood, "infinite", "true"))
    /\ ~p.map[1].infinite
    /\ Len(p.map[1].layers) = 1 /\ ~p.map[1].layers[1].infinite
    /\ Len(p.map[1].object_groups) = 1
    /\ Len(p.map[1].object_groups[1].objects) = 1
    /\ LET o == p.map[1].object_groups[1].objects[1] IN
       o.id = 0 /\ o.gid = GidEmpty /\ o.visible /\ o.width = 0 /\ o.rotation = 0


\* C4: an element no handler of the enclosing element recognizes, inserted
\* with any balanced subtree between the children of a recognized element,
\* yields no error and the same Map as the document without it.
C4_UnknownSubtreeSkipped ==
    (ins.used /\ ins.open = <<>> /\ p.res = "map") =>
        (twin.res = "map" /\ twin.map = p.map)


\* The shape of an object of these attributes whose shape children are
\* none (kid = ""), or the one called kid.
ShapeOf(attrs, kid) ==
    CASE kid = "" ->
           [kind |-> "Rect", width |-> NumberOr(attrs, "width", 0),
            height |-> NumberOr(attrs, "height", 0)]
      [] kid = "ellipse" ->
           [kind |-> "Ellipse", width |-> NumberOr(attrs, "width", 0),
            height |-> NumberOr(attrs, "height", 0)]
      [] kid = "point" ->
           [kind |-> "Point", x |-> NumVal(attrs.x), y |-> NumVal(attrs.y)]

\* The dispatch of an object pulls the EndElement of its object element.
ObjectCloses == Level(p, "object") /\ PulledEnd /\ Closed.name = "object"

\* The objects of the object group being parsed, if one is.
InGroup(q) == \E i \in DOMAIN q.stack : q.stack[i].fn = "objectgroup"
ObjectsOf(q) ==
    q.stack[CHOOSE i \in DOMAIN q.stack :
                /\ q.stack[i].fn = "objectgroup"
                /\ \A j \in DOMAIN q.stack : q.stack[j].fn = "objectgroup" => j <= i
           ].val.objects

\* An object with no shape child, one ellipse child or one point child is
\* parsed into the Object of its attributes and that shape, added last to
\* the group's list, and the parser is back in the dispatch of the group,
\* having pulled the object's EndElement and nothing after it.
C11_ObjectReturned ==
    (ObjectCloses /\ Closed.sh <= 1 /\ Closed.kid \in {"", "ellipse", "point"}) =>
        /\ p'.err = "none"
        /\ Level(p', "objectgroup")
        /\ Len(p'.stack) = Len(p.stack) - 1
        /\ Len(Top(p').val.objects) = Len(GroupObjects(p)) + 1
        /\ Front(Top(p').val.objects) = GroupObjects(p)
        /\ LET o == Last(Top(p').val.objects) IN
           /\ o.shape = ShapeOf(Closed.attrs, Closed.kid)
           /\ o.x = NumVal(Closed.attrs.x) /\ o.y = NumVal(Closed.attrs.y)
           /\ o.width = NumberOr(Closed.attrs, "width", 0)
           /\ o.height = NumberOr(Closed.attrs, "height", 0)

\* An object element with valid x and y opens a dispatch of its own, with
\* no shape yet, and its ellipse and point children do not fail it.
C11_ObjectSucceeds ==
    /\ (Level(p, "objectgroup") /\ PulledStart /\ Opened.name = "object"
          /\ RequiredGood("object", Opened.attrs))
         => /\ p'.err = "none" /\ Level(p', "object")
            /\ Top(p').val.shape = None
            /\ Front(p'.stack) = p.stack
    /\ (Level(p, "object") /\ PulledStart /\ Opened.name \in {"ellipse", "point"})
         => p'.err = "none" /\ Level(p', "object") /\ Len(p'.stack) = Len(p.stack)
    /\ (Level(p, "object") /\ PulledEnd /\ Closed.name \in {"ellipse", "point"})
         => p' = [p EXCEPT !.pulled = @ + 1]

\* The list of the group grows only when an object closes.
C11_OnlyObjectsAdded ==
    (InGroup(p) /\ InGroup(p') /\ ~ObjectCloses) => ObjectsOf(p') = ObjectsOf(p)

====
